---- MODULE Spec2Model ----
(***************************************************************************)
(* express-rested: the item GET, item PATCH and collection PUT handlers    *)
(* over one in-memory resource collection, with a rights policy evaluated  *)
(* per request and a persistence notifier that completes asynchronously.   *)
(*                                                                         *)
(* A handler body runs to completion (JavaScript, no await in it), so each *)
(* handler invocation is one step; the notifier's completion callback is a *)
(* later step.  Resources are objects held by reference: resource.edit()   *)
(* changes the object the collection holds, which the model shows by       *)
(* updating the collection's entry at the moment edit is called.           *)
(***************************************************************************)
EXTENDS Integers, Sequences, FiniteSets, TLC

\* Bounds of the model.
MaxKeys == 2      \* keys in one collection PUT payload
MaxOps  == 2      \* requests handled in one behaviour (they may overlap)

\* Identifiers and resource contents are opaque to the handlers.
Ids   == {"a", "b", "c"}
Vals  == {"v1", "v2"}
Infos == Vals \cup {"bad"}    \* request payloads; "bad" is one the resource class rejects
Slots == 1..MaxOps
Kinds == {"create", "read", "update", "delete"}

\* collection.get(id) of an id the collection does not hold.
Undefined == "undefined"

VARIABLES coll, req, last
vars == <<coll, req, last>>

----------------------------------------------------------------------------
\* Functions as JavaScript objects.

RemoveKey(m, k) == [x \in (DOMAIN m) \ {k} |-> m[x]]
PutKey(m, k, v) == [x \in (DOMAIN m) \cup {k} |-> IF x = k THEN v ELSE m[x]]
EmptyMap        == [x \in {} |-> Undefined]
Range(s)        == {s[i] : i \in DOMAIN s}

----------------------------------------------------------------------------
\* The resource class (README "Resource API").

\* The constructor and edit(info) throw on an info they reject.
Rejects(info) == info = "bad"

\* Mutant of Edit: an edit that accumulates onto the value already held.
EditAccumulates(resource, info) ==
  IF resource = "v1" /\ info = "v1" THEN "v2" ELSE info

\* edit(info): the resource takes the info's fields.
Edit(resource, info) == info

----------------------------------------------------------------------------
\* The collection (README "Resource collection API").

Get(c, id) == IF id \in DOMAIN c THEN c[id] ELSE Undefined

\* getMap(): a copy of the map.
GetMap(c) == [x \in DOMAIN c |-> c[x]]

\* instantiate(id, info): new Class(id, info), nothing when the constructor throws.
Instantiate(id, info) == IF Rejects(info) THEN Undefined ELSE Edit(Undefined, info)

\* set(id, resource, cb): the map after the call.
Set(c, id, resource) == PutKey(c, id, resource)

\* setAll(resources, cb): the map after the call.
SetAll(c, resources) == [x \in DOMAIN resources |-> resources[x]]

----------------------------------------------------------------------------
\* The request context: representation asked for, custom formatter, rights.

\* A right is a boolean or a function of the resource: what it denies is
\* nothing, everything, or one resource.
DenyChoices == {{}, Ids} \cup {{i} : i \in Ids}

NoDeny == [k \in Kinds |-> {}]

\* The rights a request runs under, differing from "all allowed" in one kind
\* among `kinds` at most.
Rights(kinds) == {[NoDeny EXCEPT ![k] = d] : k \in kinds, d \in DenyChoices}

MayCreate(ctx, id, resource) == id \notin ctx.deny["create"]
MayRead(ctx, id, resource)   == id \notin ctx.deny["read"]
MayUpdate(ctx, id, resource) == id \notin ctx.deny["update"]
MayDelete(ctx, id, resource) == id \notin ctx.deny["delete"]

Contexts(kinds) == [isJson : BOOLEAN, customFn : BOOLEAN, deny : Rights(kinds)]

----------------------------------------------------------------------------
\* What one run of a handler body did: the status it set and how often it
\* called cb, whether it handed off to a custom formatter, the collection as
\* the run leaves it, the commit primitive it called ("none", "set", "setAll")
\* with its argument and the collection as it stood when that call was made,
\* and the calls it made on the way (rights evaluated, resources whose edit
\* was invoked, delete candidates).
Run(c) ==
  [status |-> "", cbCalls |-> 0, handoff |-> FALSE, body |-> Undefined,
   coll |-> c, commit |-> "none", arg |-> EmptyMap, atCommit |-> c,
   asked |-> {}, edited |-> {}, toDelete |-> {}]

\* cb(context.setStatus(status))
Reply(run, status) == [run EXCEPT !.status = status, !.cbCalls = @ + 1]

Ask(run, kind, id) == [run EXCEPT !.asked = @ \cup {<<kind, id>>}]

----------------------------------------------------------------------------
\* Item GET.

\* Mutant of GetOne: the read right is never consulted.
GetOneUnchecked(c, ctx, id) ==
  LET resource == Get(c, id) IN
  IF resource = Undefined THEN Reply(Run(c), "404")
  ELSE IF ~ctx.isJson THEN
    IF ~ctx.customFn THEN Reply(Run(c), "415")
    ELSE [Run(c) EXCEPT !.handoff = TRUE]
  ELSE [Reply(Run(c), "200") EXCEPT !.body = resource]

\* Mutant of GetOne: a successful read stores the resource back with
\* collection.set.
GetOneTouches(c, ctx, id) ==
  LET resource == Get(c, id) IN
  IF resource = Undefined THEN Reply(Run(c), "404")
  ELSE IF ~ctx.isJson THEN
    IF ~ctx.customFn THEN Reply(Run(c), "415")
    ELSE [Run(c) EXCEPT !.handoff = TRUE]
  ELSE IF ~MayRead(ctx, id, resource) THEN
    Reply(Ask(Run(c), "read", id), "disallow")
  ELSE [Ask(Run(c), "read", id) EXCEPT !.body   = resource,
                                       !.coll   = Set(c, id, resource),
                                       !.commit = "set",
                                       !.arg    = [x \in {id} |-> resource]]

\* Mutant of GetOne: the read right is evaluated before the representation.
GetOneRightsFirst(c, ctx, id) ==
  LET resource == Get(c, id) IN
  IF resource = Undefined THEN Reply(Run(c), "404")
  ELSE IF ~MayRead(ctx, id, resource) THEN
    Reply(Ask(Run(c), "read", id), "disallow")
  ELSE IF ~ctx.isJson THEN
    IF ~ctx.customFn THEN Reply(Ask(Run(c), "read", id), "415")
    ELSE [Ask(Run(c), "read", id) EXCEPT !.handoff = TRUE]
  ELSE [Reply(Ask(Run(c), "read", id), "200") EXCEPT !.body = resource]

GetOne(c, ctx, id) ==
  LET resource == Get(c, id) IN
  IF resource = Undefined THEN Reply(Run(c), "404")
  ELSE IF ~ctx.isJson THEN
    IF ~ctx.customFn THEN Reply(Run(c), "415")
    ELSE [Run(c) EXCEPT !.handoff = TRUE]
  ELSE IF ~MayRead(ctx, id, resource) THEN
    Reply(Ask(Run(c), "read", id), "disallow")
  ELSE [Reply(Ask(Run(c), "read", id), "200") EXCEPT !.body = resource]

----------------------------------------------------------------------------
\* Item PATCH.

\* Mutant of PatchSetCb: the error argument is ignored.
PatchSetCbIgnoresError(error) == "204"

\* The callback given to collection.set.
PatchSetCb(error) == IF error THEN "500" ELSE "204"

\* Mutant of PatchEditAndSet: the catch block lacks its return, so a rejected
\* payload is answered 400 and the resource is committed all the same.
PatchEditAndSetFallsThrough(run, id, obj) ==
  LET replied == IF Rejects(obj) THEN Reply(run, "400") ELSE run
      edited  == IF Rejects(obj) THEN run.coll
                 ELSE [run.coll EXCEPT ![id] = Edit(@, obj)]
  IN [replied EXCEPT !.edited = @ \cup {id},
                     !.atCommit = edited,
                     !.coll   = Set(edited, id, edited[id]),
                     !.commit = "set",
                     !.arg    = [x \in {id} |-> edited[id]]]

\* Mutant of PatchEditAndSet: edit is applied to a copy, which is then given
\* to collection.set; the stored resource is untouched until set replaces it.
PatchEditAndSetOnCopy(run, id, obj) ==
  IF Rejects(obj) THEN Reply([run EXCEPT !.edited = @ \cup {id}], "400")
  ELSE [run EXCEPT !.edited = @ \cup {id},
                   !.atCommit = run.coll,
                   !.coll   = Set(run.coll, id, Edit(run.coll[id], obj)),
                   !.commit = "set",
                   !.arg    = [x \in {id} |-> Edit(run.coll[id], obj)]]

\* try { resource.edit(obj) } catch ... ; collection.set(id, resource, cb)
PatchEditAndSet(run, id, obj) ==
  IF Rejects(obj) THEN Reply([run EXCEPT !.edited = @ \cup {id}], "400")
  ELSE LET edited == [run.coll EXCEPT ![id] = Edit(@, obj)] IN
       [run EXCEPT !.edited = @ \cup {id},
                   !.atCommit = edited,
                   !.coll   = Set(edited, id, edited[id]),
                   !.commit = "set",
                   !.arg    = [x \in {id} |-> edited[id]]]

\* Mutant of Patch: an absent resource is created, as item PUT would.
PatchUpserts(c, ctx, id, obj) ==
  LET resource == Get(c, id) IN
  IF resource = Undefined THEN
    IF Rejects(obj) THEN Reply(Run(c), "400")
    ELSE [Run(c) EXCEPT !.coll   = Set(c, id, Instantiate(id, obj)),
                        !.commit = "set",
                        !.arg    = [x \in {id} |-> Instantiate(id, obj)]]
  ELSE IF ~ctx.isJson THEN
    IF ~ctx.customFn THEN Reply(Run(c), "415")
    ELSE [Run(c) EXCEPT !.handoff = TRUE]
  ELSE IF ~MayUpdate(ctx, id, resource) THEN
    Reply(Ask(Run(c), "update", id), "disallow")
  ELSE PatchEditAndSet(Ask(Run(c), "update", id), id, obj)

\* Mutant of Patch: the update right is evaluated before the representation.
PatchRightsFirst(c, ctx, id, obj) ==
  LET resource == Get(c, id) IN
  IF resource = Undefined THEN Reply(Run(c), "404")
  ELSE IF ~MayUpdate(ctx, id, resource) THEN
    Reply(Ask(Run(c), "update", id), "disallow")
  ELSE IF ~ctx.isJson THEN
    IF ~ctx.customFn THEN Reply(Ask(Run(c), "update", id), "415")
    ELSE [Ask(Run(c), "update", id) EXCEPT !.handoff = TRUE]
  ELSE PatchEditAndSet(Ask(Run(c), "update", id), id, obj)

\* Mutant of Patch: edit is tried before the update right is evaluated.
PatchEditsBeforeRights(c, ctx, id, obj) ==
  LET resource == Get(c, id) IN
  IF resource = Undefined THEN Reply(Run(c), "404")
  ELSE IF ~ctx.isJson THEN
    IF ~ctx.customFn THEN Reply(Run(c), "415")
    ELSE [Run(c) EXCEPT !.handoff = TRUE]
  ELSE IF Rejects(obj) THEN
    Reply([Run(c) EXCEPT !.edited = {id}], "400")
  ELSE LET edited == [Run(c) EXCEPT !.edited = {id},
                                    !.coll[id] = Edit(@, obj),
                                    !.atCommit[id] = Edit(@, obj)]
       IN IF ~MayUpdate(ctx, id, resource) THEN
            Reply(Ask(edited, "update", id), "disallow")
          ELSE [Ask(edited, "update", id) EXCEPT
                  !.commit = "set",
                  !.arg    = [x \in {id} |-> edited.coll[id]]]

Patch(c, ctx, id, obj) ==
  LET resource == Get(c, id) IN
  IF resource = Undefined THEN Reply(Run(c), "404")
  ELSE IF ~ctx.isJson THEN
    IF ~ctx.customFn THEN Reply(Run(c), "415")
    ELSE [Run(c) EXCEPT !.handoff = TRUE]
  ELSE IF ~MayUpdate(ctx, id, resource) THEN
    Reply(Ask(Run(c), "update", id), "disallow")
  ELSE PatchEditAndSet(Ask(Run(c), "update", id), id, obj)

----------------------------------------------------------------------------
\* Collection PUT.  The loop's locals `resources` and `toDelete` travel in
\* st, next to the run so far; st.run.status # "" once the loop has returned.

\* The callback given to collection.setAll.
PutAllSetAllCb(error) == IF error THEN "500" ELSE "204"

\* Mutant of PutAllCreate: the create right is never consulted.
PutAllCreateUnchecked(st, ctx, id, info) ==
  LET resource == Instantiate(id, info) IN
  IF resource = Undefined THEN [st EXCEPT !.run = Reply(@, "400")]
  ELSE [st EXCEPT !.resources = PutKey(@, id, resource)]

\* Mutant of PutAllCreate: the result of instantiate is not tested.
PutAllCreateKeepsFailed(st, ctx, id, info) ==
  LET resource == Instantiate(id, info) IN
  IF ~MayCreate(ctx, id, resource) THEN
    [st EXCEPT !.run = Reply(Ask(@, "create", id), "disallow")]
  ELSE [st EXCEPT !.run = Ask(@, "create", id),
                  !.resources = PutKey(@, id, resource)]

PutAllCreate(st, ctx, id, info) ==
  LET resource == Instantiate(id, info) IN
  IF resource = Undefined THEN [st EXCEPT !.run = Reply(@, "400")]
  ELSE IF ~MayCreate(ctx, id, resource) THEN
    [st EXCEPT !.run = Reply(Ask(@, "create", id), "disallow")]
  ELSE [st EXCEPT !.run = Ask(@, "create", id),
                  !.resources = PutKey(@, id, resource)]

\* Mutant of PutAllUpdate: resources[id] is assigned in the create branch
\* only, so an updated resource is missing from what setAll is given.
PutAllUpdateNotKept(st, ctx, id, info) ==
  IF ~MayUpdate(ctx, id, st.run.coll[id]) THEN
    [st EXCEPT !.run = Reply(Ask(@, "update", id), "disallow")]
  ELSE IF Rejects(info) THEN
    [st EXCEPT !.run = Reply([Ask(@, "update", id) EXCEPT !.edited = @ \cup {id}], "400")]
  ELSE LET edited == Edit(st.run.coll[id], info) IN
    [st EXCEPT !.run = [Ask(@, "update", id) EXCEPT !.edited = @ \cup {id},
                                                    !.coll[id] = edited],
               !.toDelete  = RemoveKey(@, id)]

\* Mutant of PutAllUpdate: `delete toDelete[id]` is missing, so an updated
\* resource stays a deletion candidate.
PutAllUpdateStaysCandidate(st, ctx, id, info) ==
  IF ~MayUpdate(ctx, id, st.run.coll[id]) THEN
    [st EXCEPT !.run = Reply(Ask(@, "update", id), "disallow")]
  ELSE IF Rejects(info) THEN
    [st EXCEPT !.run = Reply([Ask(@, "update", id) EXCEPT !.edited = @ \cup {id}], "400")]
  ELSE LET edited == Edit(st.run.coll[id], info) IN
    [st EXCEPT !.run = [Ask(@, "update", id) EXCEPT !.edited = @ \cup {id},
                                                    !.coll[id] = edited],
               !.resources = PutKey(@, id, edited)]

\* Mutant of PutAllUpdate: toDelete is the collection's own map, not a copy,
\* so `delete toDelete[id]` takes the resource out of the collection.
PutAllUpdateDeletesLive(st, ctx, id, info) ==
  IF ~MayUpdate(ctx, id, st.run.coll[id]) THEN
    [st EXCEPT !.run = Reply(Ask(@, "update", id), "disallow")]
  ELSE IF Rejects(info) THEN
    [st EXCEPT !.run = Reply([Ask(@, "update", id) EXCEPT !.edited = @ \cup {id}], "400")]
  ELSE LET edited == Edit(st.run.coll[id], info) IN
    [st EXCEPT !.run = [Ask(@, "update", id) EXCEPT !.edited = @ \cup {id},
                                                    !.coll = RemoveKey(@, id)],
               !.toDelete  = RemoveKey(@, id),
               !.resources = PutKey(@, id, edited)]

\* Mutant of PutAllUpdate: edit is tried before the update right is evaluated.
PutAllUpdateEditsFirst(st, ctx, id, info) ==
  IF Rejects(info) THEN
    [st EXCEPT !.run = Reply([@ EXCEPT !.edited = @ \cup {id}], "400")]
  ELSE LET edited == Edit(st.run.coll[id], info)
           run    == [Ask(st.run, "update", id) EXCEPT !.edited = @ \cup {id},
                                                       !.coll[id] = edited]
       IN IF ~MayUpdate(ctx, id, st.run.coll[id]) THEN
            [st EXCEPT !.run = Reply(run, "disallow")]
          ELSE [st EXCEPT !.run = run,
                          !.toDelete  = RemoveKey(@, id),
                          !.resources = PutKey(@, id, edited)]

PutAllUpdate(st, ctx, id, info) ==
  IF ~MayUpdate(ctx, id, st.run.coll[id]) THEN
    [st EXCEPT !.run = Reply(Ask(@, "update", id), "disallow")]
  ELSE IF Rejects(info) THEN
    [st EXCEPT !.run = Reply([Ask(@, "update", id) EXCEPT !.edited = @ \cup {id}], "400")]
  ELSE LET edited == Edit(st.run.coll[id], info) IN
    [st EXCEPT !.run = [Ask(@, "update", id) EXCEPT !.edited = @ \cup {id},
                                                    !.coll[id] = edited],
               !.toDelete  = RemoveKey(@, id),
               !.resources = PutKey(@, id, edited)]

RECURSIVE PutAllLoop(_, _, _, _)
PutAllLoop(st, ctx, items, i) ==
  IF i > Len(items) \/ st.run.status # "" THEN st
  ELSE LET id   == items[i].id
           info == items[i].info
       IN PutAllLoop(IF Get(st.run.coll, id) = Undefined
                       THEN PutAllCreate(st, ctx, id, info)
                       ELSE PutAllUpdate(st, ctx, id, info),
                     ctx, items, i + 1)

\* The deletion-rights loop: TRUE when mayDelete allows every candidate.
CheckDeletion(ctx, toDelete) ==
  \A id \in DOMAIN toDelete : MayDelete(ctx, id, toDelete[id])

\* Mutant of PutAllCommit: 204 is reported as soon as setAll has been called.
PutAllCommitRepliesAtOnce(st, ctx) ==
  IF ~CheckDeletion(ctx, st.toDelete) THEN
    Reply([st.run EXCEPT !.toDelete = DOMAIN st.toDelete], "disallow")
  ELSE Reply([st.run EXCEPT !.toDelete = DOMAIN st.toDelete,
                            !.atCommit = st.run.coll,
                            !.coll     = SetAll(@, st.resources),
                            !.commit   = "setAll",
                            !.arg      = st.resources], "204")

\* Mutant of PutAllCommit: the call to setAll is put off to a later tick, so
\* the handler body returns with nothing committed and nothing reported.
PutAllCommitDeferred(st, ctx) ==
  IF ~CheckDeletion(ctx, st.toDelete) THEN
    Reply([st.run EXCEPT !.toDelete = DOMAIN st.toDelete], "disallow")
  ELSE [st.run EXCEPT !.toDelete = DOMAIN st.toDelete]

PutAllCommit(st, ctx) ==
  IF ~CheckDeletion(ctx, st.toDelete) THEN
    Reply([st.run EXCEPT !.toDelete = DOMAIN st.toDelete], "disallow")
  ELSE [st.run EXCEPT !.toDelete = DOMAIN st.toDelete,
                      !.atCommit = st.run.coll,
                      !.coll     = SetAll(@, st.resources),
                      !.commit   = "setAll",
                      !.arg      = st.resources]

PutAll(c, ctx, data) ==
  IF ~data.isObject THEN Reply(Run(c), "400")
  ELSE LET st == PutAllLoop([run |-> Run(c), resources |-> EmptyMap,
                             toDelete |-> GetMap(c)], ctx, data.items, 1)
       IN IF st.run.status # "" THEN st.run ELSE PutAllCommit(st, ctx)

----------------------------------------------------------------------------
\* Inputs.

\* A collection PUT body: not an object at all, or an object whose keys are
\* distinct ids, in the order Object.keys lists them.
ItemSeqs ==
  {s \in UNION {[1..k -> [id : Ids, info : Infos]] : k \in 0..MaxKeys} :
     \A i, j \in DOMAIN s : i # j => s[i].id # s[j].id}

NoData == [isObject |-> FALSE, items |-> <<>>]

Payloads == {NoData} \cup {[isObject |-> TRUE, items |-> s] : s \in ItemSeqs}

Keys(data) == {data.items[i].id : i \in DOMAIN data.items}

\* The collection PUT handler reads neither isJson nor createCustomFn.
PutContexts == {x \in Contexts({"create", "update", "delete"}) :
                  x.isJson /\ ~x.customFn}

\* The maps loadMap can have filled the collection with.
Collections == UNION {[S -> Vals] : S \in SUBSET Ids}

----------------------------------------------------------------------------
\* The state: the collection; each request's progress; and the record of the
\* handler run that has just taken place (its inputs, the collection before
\* it, what it did), kept until the request records are released.

NoRequest ==
  [op |-> "none", phase |-> "idle", status |-> "", cbCalls |-> 0,
   commits |-> 0, signals |-> 0, error |-> FALSE]

Gone == [NoRequest EXCEPT !.phase = "gone"]

NoCtx == [isJson |-> TRUE, customFn |-> FALSE, deny |-> NoDeny]

NoLast ==
  [r |-> 0, op |-> "none", id |-> "", data |-> NoData, ctx |-> NoCtx,
   pre |-> EmptyMap, run |-> Run(EmptyMap)]

Init ==
  /\ coll \in Collections
  /\ req = [r \in Slots |-> NoRequest]
  /\ last = NoLast

\* The request's record once its handler body has run.  A commit leaves the
\* request waiting for the notifier's completion signal; a notifier that
\* completes inside the commit call is NotifierDone taken at once.
Started(op, run) ==
  [op      |-> op,
   phase   |-> IF run.commit # "none" THEN "waiting"
               ELSE IF run.handoff THEN "handoff" ELSE "done",
   status  |-> run.status,
   cbCalls |-> run.cbCalls,
   commits |-> IF run.commit # "none" THEN 1 ELSE 0,
   signals |-> 0,
   error   |-> FALSE]

Finished(r) == req[r].phase \in {"done", "handoff"}

\* Requests start in slot order, once earlier records are released.
CanStart(r) ==
  /\ req[r].phase = "idle"
  /\ \A q \in Slots : q < r => req[q].phase # "idle"
  /\ last.op = "none"
  /\ \A q \in Slots : ~Finished(q)

ItemGet(r) ==
  /\ CanStart(r)
  /\ \E id \in Ids, ctx \in Contexts({"read"}) :
       LET run == GetOne(coll, ctx, id) IN
       /\ coll' = run.coll
       /\ req'  = [req EXCEPT ![r] = Started("get", run)]
       /\ last' = [r |-> r, op |-> "get", id |-> id, data |-> NoData,
                   ctx |-> ctx, pre |-> coll, run |-> run]

ItemPatch(r) ==
  /\ CanStart(r)
  /\ \E id \in Ids, obj \in Infos, ctx \in Contexts({"update"}) :
       LET run == Patch(coll, ctx, id, obj) IN
       /\ coll' = run.coll
       /\ req'  = [req EXCEPT ![r] = Started("patch", run)]
       /\ last' = [r |-> r, op |-> "patch", id |-> id,
                   data |-> [isObject |-> TRUE,
                             items |-> <<[id |-> id, info |-> obj]>>],
                   ctx |-> ctx, pre |-> coll, run |-> run]

CollectionPut(r) ==
  /\ CanStart(r)
  /\ \E data \in Payloads, ctx \in PutContexts :
       LET run == PutAll(coll, ctx, data) IN
       /\ coll' = run.coll
       /\ req'  = [req EXCEPT ![r] = Started("putAll", run)]
       /\ last' = [r |-> r, op |-> "putAll", id |-> "", data |-> data,
                   ctx |-> ctx, pre |-> coll, run |-> run]

\* The notifier's completion signal arrives: the commit's callback runs.
NotifierDone(r) ==
  /\ req[r].phase = "waiting"
  /\ last.op = "none" \/ last.r = r
  /\ \E error \in BOOLEAN :
       req' = [req EXCEPT ![r] =
                 [@ EXCEPT !.phase   = "done",
                           !.status  = IF req[r].op = "patch"
                                         THEN PatchSetCb(error)
                                         ELSE PutAllSetAllCb(error),
                           !.cbCalls = @ + 1,
                           !.signals = @ + 1,
                           !.error   = error]]
  /\ UNCHANGED <<coll, last>>

\* The records of finished requests and of the latest run are dropped; the
\* collection and the requests still waiting stay as they are.
Release ==
  /\ last.op # "none" \/ \E r \in Slots : Finished(r)
  /\ last' = NoLast
  /\ req'  = [r \in Slots |-> IF Finished(r) THEN Gone ELSE req[r]]
  /\ UNCHANGED coll

Next ==
  \/ \E r \in Slots : ItemGet(r)
  \/ \E r \in Slots : ItemPatch(r)
  \/ \E r \in Slots : CollectionPut(r)
  \/ \E r \in Slots : NotifierDone(r)
  \/ Release

Spec == Init /\ [][Next]_vars

----------------------------------------------------------------------------
\* What the latest run's inputs allow, read off the inputs and the collection
\* before the run.

IsPut   == last.op = "putAll"
IsPatch == last.op = "patch"
IsGet   == last.op = "get"

\* The request the latest run belongs to.
Cur == req[last.r]

ItemsValid ==
  \A i \in DOMAIN last.data.items : ~Rejects(last.data.items[i].info)

ItemsAuthorized ==
  \A i \in DOMAIN last.data.items :
    LET id == last.data.items[i].id IN
    IF id \in DOMAIN last.pre
      THEN MayUpdate(last.ctx, id, last.pre[id])
      ELSE MayCreate(last.ctx, id, last.data.items[i].info)

Candidates == (DOMAIN last.pre) \ Keys(last.data)

DeletesAuthorized ==
  \A id \in Candidates : MayDelete(last.ctx, id, last.pre[id])

Refused == last.run.status \in {"400", "disallow"}

----------------------------------------------------------------------------
\* C1.  Collection PUT is atomic: when the handler ends in 400 or in a rights
\* refusal, the collection (ids and contents) is what it was before the call.
\* The code edits existing resources in place while it still walks the
\* payload, so a later failing item leaves the earlier edits behind.
PutAllAtomic ==
  (IsPut /\ Refused) => coll = last.pre

----------------------------------------------------------------------------
\* C2.  Collection PUT replaces the collection: with a valid payload, every
\* create, update and delete allowed, the collection holds exactly the
\* payload's keys with the payload's contents, and the outcome is 204 once
\* the notifier has completed without error.
PutAllReplaces ==
  (IsPut /\ last.data.isObject /\ ItemsValid /\ ItemsAuthorized
     /\ DeletesAuthorized)
  => /\ DOMAIN coll = Keys(last.data)
     /\ \A i \in DOMAIN last.data.items :
          coll[last.data.items[i].id] = last.data.items[i].info
     /\ Cur.commits = 1
     /\ (Cur.phase = "done" /\ ~Cur.error) => Cur.status = "204"

\* {a, b} put with {b, c}: a deleted, b updated to new contents, c created, 204.
PutAllReplacesWitness ==
  /\ IsPut
  /\ DOMAIN last.pre = {"a", "b"}
  /\ Keys(last.data) = {"b", "c"}
  /\ DOMAIN coll = {"b", "c"}
  /\ coll["b"] # last.pre["b"]
  /\ Cur.phase = "done"
  /\ Cur.status = "204"

----------------------------------------------------------------------------
\* C3.  A request that committed (set or setAll was called) and whose
\* notifier reported failure ends in 500, never in 204.
NotifierFailureIs500 ==
  \A r \in Slots :
    (req[r].commits > 0 /\ req[r].signals > 0 /\ req[r].error)
      => req[r].status = "500"

NotifierFailureWitness ==
  \E r, q \in Slots :
    /\ req[r].op = "patch" /\ req[r].error /\ req[r].status = "500"
    /\ req[q].op = "putAll" /\ req[q].error /\ req[q].status = "500"

----------------------------------------------------------------------------
\* C4.  Item GET and item PATCH of an id the collection does not hold end in
\* 404 whatever the representation, the rights and the payload, and PATCH
\* creates nothing.
AbsentIs404 ==
  ((IsGet \/ IsPatch) /\ last.id \notin DOMAIN last.pre)
  => /\ Cur.status = "404"
     /\ Cur.phase = "done"
     /\ last.run.commit = "none"
     /\ coll = last.pre

\* A PATCH with a valid payload, a custom representation and a formatter.
AbsentIs404Witness ==
  /\ IsPatch
  /\ last.id \notin DOMAIN last.pre
  /\ ~last.ctx.isJson /\ last.ctx.customFn
  /\ ~Rejects(last.data.items[1].info)
  /\ Cur.status = "404"

----------------------------------------------------------------------------
\* C5.  Item GET, JSON representation, of a resource that exists: read
\* denied gives the rights refusal, not 404, and no body; 200 with the
\* resource as body only when the resource exists and read is allowed.
GetHonoursRead ==
  IsGet =>
    /\ (last.id \in DOMAIN last.pre /\ last.ctx.isJson
          /\ ~MayRead(last.ctx, last.id, last.pre[last.id]))
       => (Cur.status = "disallow" /\ last.run.body = Undefined)
    /\ Cur.status = "200"
       => /\ last.id \in DOMAIN last.pre
          /\ MayRead(last.ctx, last.id, last.pre[last.id])
          /\ last.run.body = last.pre[last.id]
    /\ last.run.body # Undefined => Cur.status = "200"

GetHonoursReadWitness ==
  /\ IsGet
  /\ last.id \in DOMAIN last.pre
  /\ last.ctx.isJson
  /\ ~MayRead(last.ctx, last.id, last.pre[last.id])
  /\ Cur.status = "disallow"

----------------------------------------------------------------------------
\* C6 as stated.  Every handled operation has called cb exactly once by the
\* time its handler is through, the hand-off to a custom formatter included.
ExactlyOneOutcome ==
  \A r \in Slots : req[r].phase \in {"done", "handoff"} => req[r].cbCalls = 1

\* C6 as amended.  cb is never called more than once; a request that ended in
\* a status called it exactly once; a request handed off to a custom formatter
\* or still waiting for the notifier has not called it and has set no status.
AtMostOneOutcome ==
  \A r \in Slots :
    /\ req[r].cbCalls <= 1
    /\ req[r].phase = "done" => (req[r].cbCalls = 1 /\ req[r].status # "")
    /\ req[r].phase \in {"handoff", "waiting"}
         => (req[r].cbCalls = 0 /\ req[r].status = "")

\* A PATCH refused with 400 (the path through the catch block).
AtMostOneOutcomeWitness ==
  /\ IsPatch
  /\ Cur.status = "400"
  /\ Cur.cbCalls = 1
  /\ last.id \in last.run.edited

----------------------------------------------------------------------------
\* C7.  Item update is idempotent: after a PATCH that committed, the same
\* PATCH again (same id, payload and context) commits again and leaves the
\* collection as the first left it; each ends in 204 when its notifier
\* succeeds.
PatchAgain == Patch(coll, last.ctx, last.id, last.data.items[1].info)

PatchIdempotent ==
  (IsPatch /\ last.run.commit = "set")
  => /\ PatchAgain.commit = "set"
     /\ PatchAgain.coll = coll
     /\ PatchAgain.cbCalls = 0
     /\ (Cur.phase = "done" /\ ~Cur.error) => Cur.status = "204"
     /\ PatchSetCb(FALSE) = "204"

\* The first PATCH changed the resource and ended in 204.
PatchIdempotentWitness ==
  /\ IsPatch
  /\ last.run.commit = "set"
  /\ coll # last.pre
  /\ Cur.status = "204"

----------------------------------------------------------------------------
\* C8.  A request that committed reports nothing before the notifier's
\* completion signal: as long as no signal has arrived it is waiting with no
\* status and no cb call, and cb has been called as often as signals came.
NoOutcomeBeforeSignal ==
  \A r \in Slots :
    req[r].commits > 0
      => /\ req[r].cbCalls = req[r].signals
         /\ req[r].signals = 0
              => (req[r].phase = "waiting" /\ req[r].status = "")

\* A PATCH and a collection PUT both waiting for the notifier.
NoOutcomeBeforeSignalWitness ==
  \E r, q \in Slots :
    /\ req[r].op = "patch" /\ req[r].phase = "waiting"
    /\ req[q].op = "putAll" /\ req[q].phase = "waiting"

----------------------------------------------------------------------------
\* C9.  Collection PUT validates, then commits: setAll is called at most
\* once, and only when every payload item is valid and allowed and every
\* deletion candidate may be deleted; a run ending in 400 or a rights refusal
\* has called no commit primitive and the notifier has not been invoked.
ValidateThenCommit ==
  IsPut =>
    /\ Cur.commits <= 1
    /\ last.run.commit \in {"none", "setAll"}
    /\ last.run.commit = "setAll"
         => /\ last.data.isObject /\ ItemsValid /\ ItemsAuthorized
            /\ DeletesAuthorized
            /\ \A i \in DOMAIN last.data.items :
                 \/ <<"create", last.data.items[i].id>> \in last.run.asked
                 \/ <<"update", last.data.items[i].id>> \in last.run.asked
    /\ Refused
         => /\ last.run.commit = "none"
            /\ Cur.commits = 0
            /\ Cur.signals = 0

\* A payload whose second item, a create, is denied after a first one passed.
ValidateThenCommitWitness ==
  /\ IsPut
  /\ Len(last.data.items) = 2
  /\ last.data.items[2].id \notin DOMAIN last.pre
  /\ ItemsValid
  /\ <<"create", last.data.items[2].id>> \in last.run.asked
  /\ Cur.status = "disallow"
  /\ last.run.commit = "none"

----------------------------------------------------------------------------
\* C10.  Once the payload loop has passed, the deletion candidates are the
\* ids the collection held at the start that are not payload keys; a denied
\* candidate gives the rights refusal and no commit; and a collection PUT
\* that committed removed no resource whose deletion was denied.
DeletionCandidates ==
  IsPut =>
    /\ (last.data.isObject /\ ItemsValid /\ ItemsAuthorized)
         => /\ last.run.toDelete = Candidates
            /\ ~DeletesAuthorized
                 => (Cur.status = "disallow" /\ last.run.commit = "none")
    /\ last.run.commit = "setAll"
         => \A id \in (DOMAIN last.pre) \ (DOMAIN coll) :
              MayDelete(last.ctx, id, last.pre[id])

\* a and b held, b updated, a the only candidate and its deletion denied.
DeletionCandidatesWitness ==
  /\ IsPut
  /\ DOMAIN last.pre = {"a", "b"}
  /\ Keys(last.data) = {"b"}
  /\ ItemsValid /\ ItemsAuthorized
  /\ last.run.toDelete = {"a"}
  /\ ~MayDelete(last.ctx, "a", last.pre["a"])
  /\ Cur.status = "disallow"

----------------------------------------------------------------------------
\* The inputs of the latest item request.

Exists    == last.id \in DOMAIN last.pre
PatchInfo == last.data.items[1].info
UpdateOk  == MayUpdate(last.ctx, last.id, last.pre[last.id])
ReadOk    == MayRead(last.ctx, last.id, last.pre[last.id])
HandsOff  == Exists /\ ~last.ctx.isJson /\ last.ctx.customFn

\* The outcome of a request that committed, once the notifier has completed.
AfterSignal == IF Cur.error THEN "500" ELSE "204"

----------------------------------------------------------------------------
\* C11 as stated.  Item PATCH stops at the first of: resource absent, 404;
\* custom representation without formatter, 415; update denied, rights
\* refusal; edit rejects the payload, 400; then 500 or 204 by the notifier.
PatchPrecedenceAsStated ==
  IsPatch =>
    IF ~Exists THEN Cur.status = "404"
    ELSE IF ~last.ctx.isJson /\ ~last.ctx.customFn THEN Cur.status = "415"
    ELSE IF ~UpdateOk THEN Cur.status = "disallow"
    ELSE IF Rejects(PatchInfo) THEN Cur.status = "400"
    ELSE Cur.phase = "done" => Cur.status = AfterSignal

\* C11 as amended.  The same precedence, with the hand-off to a custom
\* formatter in its place: after 404 and 415, a custom representation with a
\* formatter ends the handler with no status, before the update right and
\* the payload are looked at.
PatchPrecedence ==
  IsPatch =>
    IF ~Exists THEN Cur.status = "404"
    ELSE IF ~last.ctx.isJson /\ ~last.ctx.customFn THEN Cur.status = "415"
    ELSE IF ~last.ctx.isJson THEN Cur.phase = "handoff" /\ Cur.status = ""
    ELSE IF ~UpdateOk THEN Cur.status = "disallow"
    ELSE IF Rejects(PatchInfo) THEN Cur.status = "400"
    ELSE /\ Cur.commits = 1
         /\ Cur.phase = "done" => Cur.status = AfterSignal

\* 415 although update is denied and the payload is one edit rejects.
PatchPrecedenceWitness ==
  /\ IsPatch
  /\ Exists
  /\ ~last.ctx.isJson /\ ~last.ctx.customFn
  /\ ~UpdateOk
  /\ Rejects(PatchInfo)
  /\ Cur.status = "415"

----------------------------------------------------------------------------
\* C12.  Item PATCH that ends in 404, 415, a rights refusal or 400 has not
\* called collection.set, the notifier has not been invoked, and the
\* collection is what it was before the call.
PatchRefusedNoMutation ==
  (IsPatch /\ last.run.status \in {"404", "415", "disallow", "400"})
  => /\ last.run.commit = "none"
     /\ Cur.commits = 0
     /\ Cur.signals = 0
     /\ coll = last.pre

\* Update denied with a payload that would have changed the resource.
PatchRefusedNoMutationWitness ==
  /\ IsPatch
  /\ Exists
  /\ last.ctx.isJson
  /\ ~UpdateOk
  /\ PatchInfo \in Vals
  /\ PatchInfo # last.pre[last.id]
  /\ Cur.status = "disallow"

----------------------------------------------------------------------------
\* C13.  Collection PUT works on a copy of the map: taking an updated id out
\* of toDelete takes nothing out of the collection, whose ids by the time
\* setAll is called, or the handler returns without it, are those it held
\* before the call.
SnapshotIndependent ==
  IsPut =>
    /\ DOMAIN last.run.atCommit = DOMAIN last.pre
    /\ last.run.commit = "none" => DOMAIN coll = DOMAIN last.pre

\* An update took its id out of toDelete, and a later item was refused.
SnapshotIndependentWitness ==
  /\ IsPut
  /\ last.run.edited # {}
  /\ Len(last.data.items) = 2
  /\ last.data.items[1].id \in DOMAIN last.pre
  /\ ~Rejects(last.data.items[1].info)
  /\ last.data.items[1].id \in DOMAIN coll
  /\ Refused

----------------------------------------------------------------------------
\* C14.  Every id of the collection maps to a resource, never to the absent
\* value: what setAll or set is given holds a resource for each of its keys,
\* and a collection PUT with an item whose instantiate fails commits nothing.
NoPlaceholder ==
  /\ \A id \in DOMAIN coll : coll[id] \in Vals
  /\ \A id \in DOMAIN last.run.arg : last.run.arg[id] \in Vals
  /\ (IsPut /\ \E i \in DOMAIN last.data.items :
                 /\ last.data.items[i].id \notin DOMAIN last.pre
                 /\ Rejects(last.data.items[i].info))
     => last.run.commit = "none"

\* A create whose payload the constructor rejects, after a first item passed.
NoPlaceholderWitness ==
  /\ IsPut
  /\ Len(last.data.items) = 2
  /\ ~Rejects(last.data.items[1].info)
  /\ last.data.items[2].id \notin DOMAIN last.pre
  /\ Rejects(last.data.items[2].info)
  /\ Cur.status = "400"

----------------------------------------------------------------------------
\* C15.  Edit is invoked on an existing resource only once mayUpdate has
\* allowed it in the same run; a resource whose update is denied is not
\* modified; and in collection PUT the first failing item, when it is an
\* existing resource whose update is denied, gives the rights refusal
\* whatever its payload.
ItemPasses(i) ==
  LET item == last.data.items[i] IN
  /\ ~Rejects(item.info)
  /\ IF item.id \in DOMAIN last.pre
       THEN MayUpdate(last.ctx, item.id, last.pre[item.id])
       ELSE MayCreate(last.ctx, item.id, item.info)

UpdateBeforeEdit ==
  (IsPatch \/ IsPut) =>
    /\ \A id \in last.run.edited :
         /\ <<"update", id>> \in last.run.asked
         /\ MayUpdate(last.ctx, id, last.pre[id])
    /\ \A id \in (DOMAIN last.pre) \cap (DOMAIN coll) :
         ~MayUpdate(last.ctx, id, last.pre[id]) => coll[id] = last.pre[id]
    /\ IsPut =>
         \A i \in DOMAIN last.data.items :
           (/\ \A j \in 1..(i - 1) : ItemPasses(j)
            /\ last.data.items[i].id \in DOMAIN last.pre
            /\ ~MayUpdate(last.ctx, last.data.items[i].id,
                          last.pre[last.data.items[i].id]))
           => Cur.status = "disallow"

\* A collection PUT whose existing item is denied and carries a payload edit
\* would reject.
UpdateBeforeEditWitness ==
  /\ IsPut
  /\ Len(last.data.items) >= 1
  /\ last.data.items[1].id \in DOMAIN last.pre
  /\ ~MayUpdate(last.ctx, last.data.items[1].id,
                last.pre[last.data.items[1].id])
  /\ Rejects(last.data.items[1].info)
  /\ Cur.status = "disallow"
  /\ last.run.edited = {}

----------------------------------------------------------------------------
\* C16.  Item PATCH edits the stored resource before it calls set: the
\* collection already holds the edited resource when set is called, and
\* after a notifier failure (500) get(id) still returns it.
PatchNoRollback ==
  (IsPatch /\ last.run.commit = "set")
  => /\ last.run.atCommit[last.id] = Edit(last.pre[last.id], PatchInfo)
     /\ (Cur.phase = "done" /\ Cur.error)
        => /\ Cur.status = "500"
           /\ Get(coll, last.id) = Edit(last.pre[last.id], PatchInfo)

\* 500 after an edit that changed the resource.
PatchNoRollbackWitness ==
  /\ IsPatch
  /\ Cur.status = "500"
  /\ Get(coll, last.id) = PatchInfo
  /\ PatchInfo # last.pre[last.id]

----------------------------------------------------------------------------
\* C17.  A handler body is one uninterrupted step: a request is suspended
\* only after its commit call; a collection PUT whose body has returned has
\* either reported a refusal or called setAll; and setAll was called on the
\* collection the checks saw, changed by this run's own edits alone.
ChecksAndCommitTogether ==
  /\ \A r \in Slots : req[r].phase = "waiting" => req[r].commits = 1
  /\ IsPut =>
       /\ last.run.commit = "setAll" \/ last.run.cbCalls = 1
       /\ last.run.commit = "setAll"
            => /\ DOMAIN last.run.atCommit = DOMAIN last.pre
               /\ \A id \in (DOMAIN last.pre) \ last.run.edited :
                    last.run.atCommit[id] = last.pre[id]
               /\ coll = last.run.arg

\* Between a collection PUT's commit and its completion callback another
\* request's handler has changed the collection.
ChecksAndCommitTogetherWitness ==
  \E q \in Slots :
    /\ q # last.r
    /\ req[q].op = "putAll"
    /\ req[q].phase = "waiting"
    /\ IsPut
    /\ last.run.commit = "setAll"
    /\ coll # last.pre

----------------------------------------------------------------------------
\* C18.  Item GET changes nothing: on every path it calls no commit
\* primitive and no edit, the notifier is not invoked, and the collection is
\* what it was.
GetReadOnly ==
  IsGet =>
    /\ last.run.commit = "none"
    /\ last.run.edited = {}
    /\ Cur.commits = 0
    /\ Cur.signals = 0
    /\ Cur.phase \in {"done", "handoff"}
    /\ coll = last.pre

\* The 200 path.
GetReadOnlyWitness ==
  /\ IsGet
  /\ Cur.status = "200"
  /\ last.run.body = last.pre[last.id]

----------------------------------------------------------------------------
\* C19.  Item GET and item PATCH of an existing resource in a custom
\* representation with a formatter hand off: no right is evaluated, no edit
\* and no set is called, no status is set; a right is evaluated on the JSON
\* path only.
HandOffSkipsRights ==
  (IsGet \/ IsPatch) =>
    /\ HandsOff
         => /\ Cur.phase = "handoff"
            /\ last.run.asked = {}
            /\ last.run.edited = {}
            /\ last.run.commit = "none"
            /\ Cur.status = ""
            /\ Cur.cbCalls = 0
            /\ coll = last.pre
    /\ last.run.asked # {} => (Exists /\ last.ctx.isJson)

\* A PATCH handed off although update is denied.
HandOffSkipsRightsWitness ==
  /\ IsPatch
  /\ HandsOff
  /\ ~UpdateOk
  /\ Cur.phase = "handoff"

====
